---------------------------- MODULE Spec2Model ----------------------------
(***************************************************************************)
(* Script-extender installer (Vortex extension): the update decision and   *)
(* the acquisition workflow, modelled from the revisions of the sources.   *)
(*                                                                         *)
(* The source tree holds several revisions of the same modules.  A build   *)
(* is one coherent combination of them:                                    *)
(*   idx "A"  src/src/index.ts 1-528         (scrape only)                 *)
(*   idx "C"  src/unnamed/part_002           (scrape + release feed)       *)
(*   idx "E"  src/unnamed/part_001 316-1017  (scrape + feed + repository)  *)
(*   gh  "G1" src/unnamed/part_001 1-314     (release-feed downloader)     *)
(*   gh  "G2" src/src/nexusModsDownloader.ts 542-832                       *)
(*   nx  "N1" src/src/nexusModsDownloader.ts 1-158                         *)
(*   nx  "N2" src/src/nexusModsDownloader.ts 159-370                       *)
(*   nx  "N3" src/src/nexusModsDownloader.ts 371-541                       *)
(* A flow is one suspension chain started by a host event; its log is the  *)
(* sequence of the external calls it issued and the answers it received.   *)
(***************************************************************************)
EXTENDS Integers, Sequences, FiniteSets, TLC

VARIABLES build,    \* the revisions linked together (fixed after Init)
          kind,     \* per game: which remote source its descriptor names
          ignore,   \* per game: the descriptor's transient ignore flag
          tableIgnore, \* an "ignore" property set on the supportData table itself
          cache,    \* per game: the descriptor's latestVersion field
          active,   \* the host's active game (and the game of its active profile)
          flows     \* per slot: the flow running in it

vars == <<build, kind, ignore, tableIgnore, cache, active, flows>>

-----------------------------------------------------------------------------
(* Domains *)

\* Bounds of the model's inputs.
MaxFeed == 2
MaxFiles == 2

Games == {"skyrim", "falloutnv"}
AllGames == Games \cup {"other"}
FlowIds == {"f1"}
ModIds == {"m1", "m2"}

\* A semantic version is <<major, minor, patch>>; NoVer is the absent value.
VerParts == {0, 1}
Versions == {<<a, b, c>> : a \in VerParts, b \in VerParts, c \in VerParts}
NoVer == <<>>
InstalledVersions == {<<0, 1, 0>>, <<1, 0, 1>>}
ModVersions == {<<0, 1, 0>>, <<1, 1, 1>>}

Builds == {[idx |-> "A", gh |-> "-", nx |-> "-"],
           [idx |-> "C", gh |-> "G1", nx |-> "-"],
           [idx |-> "C", gh |-> "G2", nx |-> "-"],
           [idx |-> "E", gh |-> "G2", nx |-> "N1"],
           [idx |-> "E", gh |-> "G2", nx |-> "N2"],
           [idx |-> "E", gh |-> "G2", nx |-> "N3"]}

\* The descriptor table of a build: the source each game's descriptor names
\* (nexusMods before gitHubAPIUrl before the website).
KindsOf(b) ==
  IF b.idx = "A" THEN {[skyrim |-> "scrape", falloutnv |-> "scrape"]}
  ELSE IF b.idx = "C" THEN {[skyrim |-> "scrape", falloutnv |-> "github"]}
  ELSE {[skyrim |-> "nexus", falloutnv |-> "github"],
        [skyrim |-> "scrape", falloutnv |-> "github"]}

\* The latestVersion the table ships with (scaled into Versions); revision E's
\* descriptors have no such field.
TableLatest(b) ==
  IF b.idx = "E" THEN [g \in Games |-> NoVer]
  ELSE [skyrim |-> <<1, 1, 0>>, falloutnv |-> <<1, 0, 1>>]

-----------------------------------------------------------------------------
(* semver *)

compareIdentifiers(a, b) == IF a = b THEN 0 ELSE IF a < b THEN -1 ELSE 1

SemverCompare(a, b) ==
  IF compareIdentifiers(a[1], b[1]) # 0 THEN compareIdentifiers(a[1], b[1])
  ELSE IF compareIdentifiers(a[2], b[2]) # 0 THEN compareIdentifiers(a[2], b[2])
  ELSE compareIdentifiers(a[3], b[3])

SemverGtLoose(a, b) == SemverCompare(a, b) >= 0

SemverGt(a, b) == SemverCompare(a, b) > 0

SemverGte(a, b) == SemverCompare(a, b) >= 0

-----------------------------------------------------------------------------
(* Flows *)

IdleFlow == [pc |-> "idle", game |-> "other", trig |-> "-", src |-> "-",
             purpose |-> "-", obj |-> "-", cur |-> NoVer, latest |-> NoVer,
             status |-> 0, remaining |-> -1,
             fileId |-> 0, choices |-> {}, modId |-> FALSE, written |-> {},
             binary |-> "-", account |-> "-", target |-> "-", gate |-> "-", log |-> <<>>]

Emit(fl, evs) == [fl EXCEPT !.log = @ \o evs]

Finish(fl, evs) == [fl EXCEPT !.log = @ \o evs, !.pc = "done"]

\* clearNotifications: the update notifications of every game are dismissed,
\* and unless preserveMissing the missing notifications too.
Cleared(fl, preserveMissing) ==
  fl.pc = "notif" /\ (fl.purpose = "update" \/ ~preserveMissing)

\* A slot can take a new flow when it is free, or when the trigger's
\* clearNotifications removes the notification its flow is waiting on.
CanStart(f, preserveMissing) ==
  \/ flows[f].pc \in {"idle", "done", "orphan"}
  \/ Cleared(flows[f], preserveMissing)

\* The flows after a trigger started fl in slot f: clearNotifications also
\* removes the notifications the flows of the other slots are waiting on.
Orphaned(fl) == [fl EXCEPT !.pc = "orphan"]

Started(f, fl, preserveMissing) ==
  [h \in DOMAIN flows |->
     IF h = f THEN fl
     ELSE IF Cleared(flows[h], preserveMissing) THEN Orphaned(flows[h])
     ELSE flows[h]]

\* The flows after slot f moved on to fl.  A notification is sent under the
\* id scriptextender-<purpose>-<game>, so one that fl has just raised takes
\* the place of another flow's notification of the same id.
SameNotification(a, b) == a.game = b.game /\ a.purpose = b.purpose

Put(f, fl) ==
  [h \in DOMAIN flows |->
     IF h = f THEN fl
     ELSE IF /\ fl.pc = "notif" /\ flows[f].pc # "notif"
             /\ flows[h].pc = "notif" /\ SameNotification(flows[h], fl)
          THEN Orphaned(flows[h])
     ELSE flows[h]]

Init ==
  /\ build \in Builds
  /\ kind \in KindsOf(build)
  /\ ignore = [g \in Games |-> FALSE]
  /\ tableIgnore = FALSE
  /\ cache = TableLatest(build)
  /\ active = "other"
  /\ flows = [f \in FlowIds |-> IdleFlow]


-----------------------------------------------------------------------------
(* Host events *)

Stores == {"steam", "xbox", "epic"}

\* The script-extender mods of the game's mod list: none, only disabled
\* ones, or an enabled one.
ModListStates == {"none", "disabled", "enabled"}

\* The stores the script extenders do not work with.
UnsupportedStores == {"xbox", "epic"}

\* What the host state held when the trigger arrived, as far as the handler
\* of the revision reads it: the first of the conditions under which no
\* flow is to start, "-" when none holds.
GateOf(g, discovered, store, seMods) ==
  IF g \notin Games THEN "unsupported"
  ELSE IF ignore[g] THEN "ignored"
  ELSE IF build.idx = "E" /\ ~discovered THEN "undiscovered"
  ELSE IF build.idx = "E" /\ store \in UnsupportedStores THEN "store"
  ELSE IF seMods # "none" THEN "se-" \o seMods
  ELSE "-"

InstalledScriptExtendersEnabledOnly(seMods) == seMods = "enabled"

\* installedScriptExtenders: the mods marked as script extender, whatever
\* their state in the profile.
InstalledScriptExtenders(seMods) == seMods # "none"

\* onGameModeActivated up to its first await.  discovered, store and seMods
\* are what the handler reads from the host state: whether the game's path
\* is known, its store, and the script-extender mods of its mod list.
GameModeActivatedFlow(g, discovered, store, seMods) ==
  LET base == [IdleFlow EXCEPT !.game = g, !.trig = "gma", !.target = g,
                              !.gate = GateOf(g, discovered, store, seMods)] IN
  IF g \notin Games THEN Finish(base, <<>>)
  ELSE IF ignore[g] THEN Finish(base, <<>>)
  ELSE IF build.idx = "E" /\ ~discovered THEN Finish(base, <<>>)
  ELSE IF build.idx = "E" /\ store \in UnsupportedStores THEN Finish(base, <<>>)
  ELSE IF InstalledScriptExtenders(seMods) THEN Finish(base, <<>>)
  ELSE IF ~discovered THEN Finish(base, <<"throw">>)
  ELSE [base EXCEPT !.pc = "probe"]

OnGameModeActivated(f, g) ==
  /\ CanStart(f, FALSE)
  /\ \E discovered \in BOOLEAN, store \in Stores, seMods \in ModListStates :
       flows' = Started(f, GameModeActivatedFlow(g, discovered, store, seMods), FALSE)
  /\ active' = g
  /\ UNCHANGED <<build, kind, ignore, tableIgnore, cache>>

\* onCheckModVersion up to its first await.  The host raises the event from
\* the update check of the game it is managing, the active one.
CheckModVersionChecksIgnore == build.idx # "A"

CheckModVersionFlow(g, discovered, store) ==
  LET base == [IdleFlow EXCEPT !.game = g, !.trig = "cmv", !.target = g] IN
  IF g \notin Games THEN Finish(base, <<>>)
  ELSE IF CheckModVersionChecksIgnore /\ ignore[g] THEN Finish(base, <<>>)
  ELSE IF build.idx = "E" /\ kind[g] = "nexus" THEN Finish(base, <<>>)
  ELSE IF build.idx = "E" /\ (~discovered \/ store \in UnsupportedStores) THEN Finish(base, <<>>)
  ELSE IF ~discovered THEN Finish(base, <<"throw">>)
  ELSE [base EXCEPT !.pc = "probe"]

OnCheckModVersion(f, g) ==
  /\ CanStart(f, TRUE)
  /\ g = active
  /\ \E discovered \in BOOLEAN, store \in Stores :
       flows' = Started(f, CheckModVersionFlow(g, discovered, store), TRUE)
  /\ UNCHANGED <<build, kind, ignore, tableIgnore, cache, active>>

-----------------------------------------------------------------------------
(* Prompts *)

\* sendNotification of the not-installed or update prompt.  obj is the object
\* the dialog's Ignore button will flag; src selects the dialog's buttons.
Notify(fl, purpose, src, obj) ==
  [fl EXCEPT !.pc = "notif", !.purpose = purpose, !.src = src, !.obj = obj,
             !.log = @ \o <<IF purpose = "missing" THEN "n_missing" ELSE "n_update">>]

\* The descriptor object onGameModeActivated hands to notifyNewVersion on the
\* cached path: revision A passes the table, not the game's entry.
CachedPathObject(g) == IF build.idx = "A" THEN "table" ELSE g

\* The game id the resolver's calls carry: N2 and G2 take it from the
\* descriptor, N1, N3 and G1 read selectors.activeGameId when the resolver
\* is entered.
NexusGameId(g) == IF build.nx = "N2" THEN g ELSE active
FeedGameId(g) == IF build.gh = "G2" THEN g ELSE active

\* The not-installed branch of onGameModeActivated.
NotInstalledFlow(fl) ==
  LET g == fl.game IN
  IF build.idx = "E" /\ kind[g] = "nexus"
  THEN Notify([fl EXCEPT !.target = NexusGameId(g)], "missing", "nx", g)
  ELSE IF build.idx # "A" /\ kind[g] = "github"
       THEN [fl EXCEPT !.pc = "feed", !.purpose = "missing", !.src = "gh",
                       !.target = FeedGameId(g)]
  ELSE Notify(fl, "missing", "scrape", g)

\* onGameModeActivated after getScriptExtenderVersion resolved to v.
GameModeProbedFlow(fl, v) ==
  LET g == fl.game
      got == [fl EXCEPT !.cur = v] IN
  IF v = NoVer THEN NotInstalledFlow(got)
  ELSE IF build.idx = "E" THEN Finish(got, <<>>)
  ELSE IF cache[g] # NoVer /\ SemverGt(cache[g], v)
       THEN Notify([got EXCEPT !.latest = cache[g]], "update", "scrape", CachedPathObject(g))
  ELSE IF cache[g] = NoVer THEN [got EXCEPT !.pc = "fetch", !.src = "scrape", !.purpose = "update"]
  ELSE Finish([got EXCEPT !.latest = cache[g]], <<>>)

\* onCheckModVersion after getScriptExtenderVersion resolved to v.
CheckModProbedFlow(fl, v) ==
  LET g == fl.game
      got == [fl EXCEPT !.cur = v] IN
  IF v = NoVer THEN Finish(got, <<>>)
  ELSE IF build.idx # "A" /\ kind[g] = "github"
       THEN [got EXCEPT !.pc = "feed", !.purpose = "update", !.src = "gh",
                        !.target = FeedGameId(g)]
  ELSE [got EXCEPT !.pc = "fetch", !.src = "scrape", !.purpose = "update"]

\* The loader at the expected path, as getScriptExtenderVersion finds it:
\* whether fs.statAsync finds the file, what getVersion makes of it (the
\* file version, an exception, or a text without a number), and the four
\* numbers of the file version.
ExeVersions == {<<0, 0, 1, 0>>, <<0, 1, 0, 1>>, <<1, 0, 1, 0>>}
ProbeInputs == [exists : BOOLEAN, reads : {"version", "throws", "nodigits"}, exe : ExeVersions]

\* exeVersion.startsWith('0') ? exeVersion.substr(exeVersion.indexOf('.'), ...)
StripLeadingZero(exe) == IF exe[1] = 0 THEN Tail(exe) ELSE exe

\* semver.coerce(...).version: the first three numbers of the text.
SemverCoerce(nums) == SubSeq(nums, 1, 3)

GetScriptExtenderVersionUncaught(file) ==
  IF ~file.exists THEN NoVer
  ELSE SemverCoerce(StripLeadingZero(file.exe))

\* getScriptExtenderVersion: the catch after the then resolves to nothing
\* when the file is missing, when getVersion throws, and when coerce gives
\* null and reading its version throws.
GetScriptExtenderVersion(file) ==
  IF ~file.exists THEN NoVer
  ELSE IF file.reads # "version" THEN NoVer
  ELSE SemverCoerce(StripLeadingZero(file.exe))

\* What was at the expected path when the flow probed it.
BinaryState(file) ==
  IF ~file.exists THEN "absent"
  ELSE IF file.reads # "version" THEN "unreadable"
  ELSE "present"

Probed(f) ==
  /\ flows[f].pc = "probe"
  /\ \E file \in ProbeInputs :
       LET v == GetScriptExtenderVersion(file)
           fl == [flows[f] EXCEPT !.binary = BinaryState(file)] IN
       flows' = Put(f, IF fl.trig = "gma" THEN GameModeProbedFlow(fl, v)
                       ELSE CheckModProbedFlow(fl, v))
  /\ UNCHANGED <<build, kind, ignore, tableIgnore, cache, active>>

-----------------------------------------------------------------------------
(* check-mods-version: the version attributes *)

\* The mods the event hands over, with the active profile's enabled state.
ModRecs == [se : BOOLEAN, enabled : BOOLEAN, nexus : BOOLEAN, version : ModVersions]
ModDicts == [ModIds -> ModRecs]

ScriptExtendersOfAnySource(mods) ==
  {m \in ModIds : mods[m].se /\ mods[m].enabled}

\* The mods onCheckModVersion keeps: script extenders enabled in the profile
\* (revision E: and not sourced from Nexus Mods).
ScriptExtenders(mods) ==
  {m \in ModIds : mods[m].se /\ mods[m].enabled /\ (build.idx = "E" => ~mods[m].nexus)}

\* The handler returns early when the check gave nothing or the installed version.
SkipsAttributes(latestVersion, scriptExtenderVersion) ==
  latestVersion = NoVer \/ latestVersion = scriptExtenderVersion

\* The end of onCheckModVersion, given what the update check resolved to.
VersionAttributes(fl, latestVersion, mods) ==
  IF fl.trig # "cmv" \/ SkipsAttributes(latestVersion, fl.cur) THEN fl
  ELSE LET w == {m \in ScriptExtenders(mods) : mods[m].version # latestVersion} IN
       [fl EXCEPT !.written = w, !.log = IF w = {} THEN @ ELSE @ \o <<"attr">>]

-----------------------------------------------------------------------------
(* Scrape resolver *)

\* What the website fetch comes to: the version normalized from the file name
\* the page links, or a failure (status, network, no match, unparsable).
ScrapeAnswers ==
  {[ok |-> TRUE, why |-> "-", ver |-> v] : v \in Versions}
    \cup {[ok |-> FALSE, why |-> w, ver |-> NoVer] :
            w \in {"status", "neterr", "nomatch", "unparsable"}}

\* What checkForUpdate resolves to when it could not resolve a version.
ScrapeFallback(fl) == IF build.idx = "E" THEN fl.cur ELSE cache[fl.game]

\* checkForUpdate's decision once the page gave latestVersion.
ScrapeDecision(fl, latestVersion) ==
  LET got == [fl EXCEPT !.latest = latestVersion] IN
  IF SemverGt(latestVersion, fl.cur) THEN Notify(got, "update", "scrape", fl.game)
  ELSE [got EXCEPT !.pc = "done"]

CachesLatest == build.idx # "E"

Fetched(f) ==
  /\ flows[f].pc = "fetch"
  /\ \E ans \in ScrapeAnswers, mods \in ModDicts :
       LET fl == flows[f] IN
       IF ans.ok
       THEN /\ flows' = Put(f, VersionAttributes(ScrapeDecision(fl, ans.ver), ans.ver, mods))
            /\ cache' = IF CachesLatest THEN [cache EXCEPT ![fl.game] = ans.ver] ELSE cache
       ELSE /\ flows' = [flows EXCEPT ![f] =
                           VersionAttributes([fl EXCEPT !.pc = "done", !.log = @ \o <<"scrape_failed">>],
                                             ScrapeFallback(fl), mods)]
            /\ cache' = cache
  /\ UNCHANGED <<build, kind, ignore, tableIgnore, active>>

-----------------------------------------------------------------------------
(* The user and the prompt *)

\* Whether the host lets the user close the notification (no noDismiss).
Dismissable(fl) ==
  CASE fl.src = "scrape" -> TRUE
    [] fl.src = "gh" -> build.gh = "G1"
    [] fl.src = "nx" -> build.nx = "N2"
    [] OTHER -> FALSE

\* The prompt is closed through the host: nothing of the flow runs again.
UserDismiss(f) ==
  /\ flows[f].pc = "notif"
  /\ Dismissable(flows[f])
  /\ flows' = [flows EXCEPT ![f].pc = "orphan", ![f].log = @ \o <<"u_dismiss">>]
  /\ UNCHANGED <<build, kind, ignore, tableIgnore, cache, active>>

\* The game of the profile the dialog's actions work on: dialogActions of
\* revision E reads selectors.activeProfile when the dialog is built.
DialogProfileGame(fl) ==
  IF fl.src = "scrape" /\ build.idx = "E" THEN active ELSE fl.target

\* The notification's More action opens the dialog.
UserMore(f) ==
  /\ flows[f].pc = "notif"
  /\ flows' = [flows EXCEPT ![f].pc = "dialog", ![f].target = DialogProfileGame(flows[f])]
  /\ UNCHANGED <<build, kind, ignore, tableIgnore, cache, active>>

\* gameSupportData.ignore = true on the object the dialog was built with.
SetIgnore(obj) ==
  IF obj = "table" THEN ignore' = ignore /\ tableIgnore' = TRUE
  ELSE ignore' = [ignore EXCEPT ![obj] = TRUE] /\ tableIgnore' = tableIgnore

\* ignoreNotifications(gameSupport): the table entry keyed by gameSupport.gameId.
IgnoreNotifications(gameSupport) ==
  /\ ignore' = [ignore EXCEPT ![gameSupport] = TRUE]
  /\ tableIgnore' = tableIgnore

\* The Ignore button of any prompt.
UserIgnore(f) ==
  /\ flows[f].pc = "dialog"
  /\ flows' = [flows EXCEPT ![f] = Finish(@, <<"u_ignore">>)]
  /\ IF flows[f].src = "scrape" THEN SetIgnore(flows[f].obj)
     ELSE IgnoreNotifications(flows[f].game)
  /\ UNCHANGED <<build, kind, cache, active>>

\* The scrape dialog's Open in browser button.
UserOpenInBrowser(f) ==
  /\ flows[f].pc = "dialog" /\ flows[f].src = "scrape"
  /\ flows' = [flows EXCEPT ![f] = Finish(@, <<"u_browser", "opn">>)]
  /\ UNCHANGED <<build, kind, ignore, tableIgnore, cache, active>>

\* The scrape dialog's Open in Vortex button: browse-for-download.
UserOpenInVortex(f) ==
  /\ flows[f].pc = "dialog" /\ flows[f].src = "scrape"
  /\ flows' = [flows EXCEPT ![f].pc = "browse", ![f].log = @ \o <<"u_vortex", "browse">>]
  /\ UNCHANGED <<build, kind, ignore, tableIgnore, cache, active>>

-----------------------------------------------------------------------------
(* Release-Feed resolver *)

\* Tags of the feed's releases: semantic versions, or NoVer for a tag that is
\* no semantic version.  Asset names "a" and "b" match the descriptor's
\* pattern, "x" does not.
FeedTags == {<<0, 1, 0>>, <<1, 0, 1>>, <<1, 1, 0>>, NoVer}
AssetLists == {<<"x">>, <<"a", "b">>, <<"b", "a">>}
Releases == [tag : FeedTags, pre : BOOLEAN, assets : AssetLists]
SeqsUpTo(S, n) == UNION {[1..k -> S] : k \in 0..n}
Feeds == SeqsUpTo(Releases, MaxFeed)

\* What the https request of query() comes to.  remaining is the
\* x-ratelimit-remaining header, -1 when the response has none.
QueryAnswers ==
  {[net |-> FALSE, status |-> 0, remaining |-> -1, json |-> "bad", feed |-> <<>>]}
    \cup {[net |-> TRUE, status |-> st, remaining |-> r, json |-> j, feed |-> <<>>] :
            st \in {200, 403, 500}, r \in {-1, 0, 5}, j \in {"bad", "object"}}
    \cup {[net |-> TRUE, status |-> 200, remaining |-> 5, json |-> "array", feed |-> fd] :
            fd \in Feeds}
    \cup {[net |-> TRUE, status |-> 403, remaining |-> 0, json |-> "array", feed |-> fd] :
            fd \in SeqsUpTo(Releases, 1)}

CallsRemainingAsSent(ans) == ans.remaining

\* parseInt(util.getSafe(msgHeaders, ['x-ratelimit-remaining'], '0'), 10): a
\* response without the header counts as one with no calls remaining.
CallsRemaining(ans) == IF ans.remaining = -1 THEN 0 ELSE ans.remaining

QueryWithoutRateLimit(ans) ==
  IF ~ans.net THEN "error"
  ELSE IF ans.json = "bad" THEN "error"
  ELSE IF ans.json = "object" THEN "notarray"
  ELSE "array"

\* query(): rejects with ProcessCanceled on a rate limit, with the error on a
\* network or parse failure, and resolves to the parsed body otherwise.
Query(ans) ==
  LET callsRemaining == CallsRemaining(ans) IN
  IF ~ans.net THEN "error"
  ELSE IF ans.status = 403 /\ callsRemaining = 0 THEN "canceled"
  ELSE IF ans.json = "bad" THEN "error"
  ELSE IF ans.json = "object" THEN "notarray"
  ELSE "array"

QualifiesWithPreRelease(rel, floor) ==
  /\ rel.tag # NoVer
  /\ (floor = NoVer \/ SemverGte(rel.tag, floor))

\* The filter of getLatestReleases.  floor is what the tag is compared
\* against: currentVersion in G2 (NoVer when undefined), the descriptor's
\* latestVersion in G1.
Qualifies(rel, floor) ==
  /\ ~rel.pre
  /\ rel.tag # NoVer
  /\ (floor = NoVer \/ SemverGte(rel.tag, floor))

RECURSIVE FilterReleases(_, _)
FilterReleases(feed, floor) ==
  IF feed = <<>> THEN <<>>
  ELSE (IF Qualifies(Head(feed), floor) THEN <<Head(feed)>> ELSE <<>>)
         \o FilterReleases(Tail(feed), floor)

InsertReleaseAtEnd(rel, sorted) == sorted \o <<rel>>

\* Array.sort with (lhs, rhs) => semver.compare(rhs.tag_name, lhs.tag_name):
\* descending by version, stable.
RECURSIVE InsertRelease(_, _)
InsertRelease(rel, sorted) ==
  IF sorted = <<>> THEN <<rel>>
  ELSE IF SemverCompare(Head(sorted).tag, rel.tag) < 0 THEN <<rel>> \o sorted
  ELSE <<Head(sorted)>> \o InsertRelease(rel, Tail(sorted))

RECURSIVE SortReleases(_)
SortReleases(rels) ==
  IF rels = <<>> THEN <<>>
  ELSE InsertRelease(rels[Len(rels)], SortReleases(SubSeq(rels, 1, Len(rels) - 1)))

ReleaseFloor(fl) ==
  IF build.gh = "G1" THEN cache[fl.game]
  ELSE IF fl.purpose = "update" THEN fl.cur ELSE NoVer

GetLatestReleases(feed, floor) == SortReleases(FilterReleases(feed, floor))

\* resolveDownloadLink: the first asset of the first release that matches the
\* pattern; "" when none does.
MatchesPattern(name) == name \in {"a", "b"}

ResolveDownloadLink(assets) ==
  LET archives == SelectSeq(assets, MatchesPattern) IN
  IF archives = <<>> THEN "" ELSE archives[1]

\* downloadScriptExtender (not installed) once the feed answered.
FeedDownloadFlow(fl, ans) ==
  LET out == Query(ans)
      current == GetLatestReleases(ans.feed, ReleaseFloor(fl)) IN
  IF out = "canceled" THEN Finish(fl, <<"ratelimited">>)
  ELSE IF out # "array" THEN Finish(fl, <<"err">>)
  ELSE IF current = <<>> THEN Finish(fl, <<"err">>)
  ELSE IF ResolveDownloadLink(current[1].assets) = "" THEN Finish(fl, <<"err">>)
  ELSE Notify([fl EXCEPT !.latest = current[1].tag], "missing", "gh", fl.game)

\* checkForUpdates once the feed answered.
FeedUpdateFlow(fl, ans) ==
  LET out == Query(ans)
      current == GetLatestReleases(ans.feed, ReleaseFloor(fl)) IN
  IF out = "canceled" THEN Finish(fl, <<"ratelimited">>)
  ELSE IF out # "array" THEN Finish(fl, <<"err">>)
  ELSE IF current = <<>> THEN Finish(fl, <<"err">>)
  ELSE IF ResolveDownloadLink(current[1].assets) = "" THEN Finish(fl, <<"err">>)
  ELSE IF SemverGt(current[1].tag, fl.cur)
       THEN Notify([fl EXCEPT !.latest = current[1].tag], "update", "gh", fl.game)
  ELSE Finish([fl EXCEPT !.latest = current[1].tag], <<>>)

FeedAnswered(f) ==
  /\ flows[f].pc = "feed"
  /\ \E ans \in QueryAnswers :
       LET fl == [flows[f] EXCEPT !.status = ans.status, !.remaining = ans.remaining] IN
       flows' = Put(f, IF fl.purpose = "missing" THEN FeedDownloadFlow(fl, ans)
                       ELSE FeedUpdateFlow(fl, ans))
  /\ UNCHANGED <<build, kind, ignore, tableIgnore, cache, active>>

\* The Download button of the Release-Feed and Managed-Repository dialogs
\* resolves the consent promise.
ConsentGiven(fl) ==
  IF fl.src = "gh" THEN [fl EXCEPT !.pc = "redirect"]
  ELSE [fl EXCEPT !.pc = "nxstart"]

UserDownload(f) ==
  /\ flows[f].pc = "dialog" /\ flows[f].src \in {"gh", "nx"}
  /\ flows' = [flows EXCEPT ![f] = ConsentGiven(Emit(@, <<"u_download">>))]
  /\ UNCHANGED <<build, kind, ignore, tableIgnore, cache, active>>

\* G2's notifications carry a second action, the close icon of downloadConsent
\* and the Dismiss of notifyUpdate.
HasCloseAction(fl) == fl.src = "gh" /\ build.gh = "G2"

UserClose(f) ==
  /\ flows[f].pc = "notif" /\ HasCloseAction(flows[f])
  /\ flows' = [flows EXCEPT ![f] = ConsentGiven(Emit(@, <<"u_close">>))]
  /\ UNCHANGED <<build, kind, ignore, tableIgnore, cache, active>>

\* startDownload of the Release-Feed resolver: the redirect request, then
\* start-download.  In the update flow the promise chain resolves to the most
\* recent version as soon as the download is requested, and onCheckModVersion
\* runs to its end.
Redirected(f) ==
  /\ flows[f].pc = "redirect"
  /\ \E ok \in BOOLEAN, mods \in ModDicts :
       LET fl == flows[f] IN
       flows' = [flows EXCEPT ![f] =
                   IF ~ok THEN Finish(fl, <<"err">>)
                   ELSE VersionAttributes([Emit(fl, <<"start-download">>) EXCEPT !.pc = "dl"],
                                          IF fl.purpose = "update" THEN fl.latest ELSE NoVer, mods)]
  /\ UNCHANGED <<build, kind, ignore, tableIgnore, cache, active>>

-----------------------------------------------------------------------------
(* Scrape resolver: browse-for-download *)

\* What browse-for-download comes to: nothing picked, a rejection, a link
\* that is no archive of the script extender, or the archive.
BrowseResults == {"none", "fail", "wrong", "right"}

BrowsedFlow(fl, r) ==
  CASE r = "none" -> Finish(fl, <<"browse_none">>)
    [] r = "fail" -> Finish(fl, IF build.idx = "E" THEN <<"browse_fail", "err">> ELSE <<"browse_fail">>)
    [] r = "wrong" -> Finish(fl, <<"n_wrong">>)
    [] OTHER -> [Emit(fl, <<"start-download">>) EXCEPT !.pc = "dl"]

Browsed(f) ==
  /\ flows[f].pc = "browse"
  /\ \E r \in BrowseResults : flows' = [flows EXCEPT ![f] = BrowsedFlow(@, r)]
  /\ UNCHANGED <<build, kind, ignore, tableIgnore, cache, active>>

-----------------------------------------------------------------------------
(* The download and install callbacks *)

\* What the start-download callback receives: no error, AlreadyDownloaded
\* with a download id, or another error.
DownloadResults == {"dl_ok", "dl_exists", "dl_err"}

\* Whether the callback goes on to start-install-download.
InstallsAfter(fl, r) ==
  CASE fl.src = "scrape" /\ build.idx = "A" -> TRUE
    [] fl.src = "nx" -> r = "dl_ok"
    [] OTHER -> r # "dl_err"

DownloadedFlow(fl, r) ==
  IF InstallsAfter(fl, r) THEN [Emit(fl, <<r, "start-install">>) EXCEPT !.pc = "inst"]
  ELSE Finish(fl, <<r, "err">>)

DownloadCallback(f) ==
  /\ flows[f].pc = "dl"
  /\ \E r \in DownloadResults : flows' = [flows EXCEPT ![f] = DownloadedFlow(@, r)]
  /\ UNCHANGED <<build, kind, ignore, tableIgnore, cache, active>>

\* What the start-install-download callback receives: a mod id, UserCanceled,
\* or another error.
InstallResults == {"inst_ok", "inst_cancel", "inst_err"}

\* Whether the callback raises an error notification.
InstallErrorShown(fl, r) ==
  CASE fl.src = "scrape" -> FALSE
    [] fl.src = "gh" /\ build.gh = "G1" -> r # "inst_ok"
    [] OTHER -> r = "inst_err"

\* The reconciliation the scrape dialog of revision E runs after an install:
\* the other enabled script extenders are disabled, the new mod enabled and
\* deployed.
ScrapeReconcileDeployFirst(fl, hasProfile, hadOld) ==
  IF build.idx # "E" \/ ~hasProfile THEN Finish(fl, <<>>)
  ELSE [Emit(fl, <<"deploy-single-mod", "setModEnabled">>
                   \o (IF hadOld THEN <<"disable-old">> ELSE <<>>))
          EXCEPT !.pc = "deploy", !.modId = TRUE]

ScrapeReconcile(fl, hasProfile, hadOld) ==
  IF build.idx # "E" \/ ~hasProfile THEN Finish(fl, <<>>)
  ELSE [Emit(fl, (IF hadOld THEN <<"disable-old">> ELSE <<>>)
                   \o <<"setModEnabled", "deploy-single-mod">>)
          EXCEPT !.pc = "deploy", !.modId = TRUE]

InstalledFlow(fl, r, hasProfile, hadOld) ==
  LET got == Emit(fl, <<r>>) IN
  IF r # "inst_ok"
  THEN Finish(got, IF InstallErrorShown(fl, r) THEN <<"err">> ELSE <<>>)
  ELSE CASE fl.src = "scrape" -> ScrapeReconcile(got, hasProfile, hadOld)
         [] fl.src = "gh" -> Finish(got, <<>>)
         [] OTHER -> [Emit(got, <<"setModEnabled", "deploy-single-mod">>)
                        EXCEPT !.pc = "deploy", !.modId = TRUE]

InstallCallback(f) ==
  /\ flows[f].pc = "inst"
  /\ \E r \in InstallResults, hasProfile \in BOOLEAN, hadOld \in BOOLEAN :
       flows' = [flows EXCEPT ![f] = InstalledFlow(@, r, hasProfile, hadOld)]
  /\ UNCHANGED <<build, kind, ignore, tableIgnore, cache, active>>

\* deploy-single-mod and discover-tools are awaited; a rejection reaches the
\* catch of downloadScriptExtender in the Managed-Repository resolver and is
\* unhandled in the scrape dialog.
AwaitRejected(fl) == Finish(fl, IF fl.src = "nx" THEN <<"await_rej", "err">> ELSE <<"await_rej">>)

Deployed(f) ==
  /\ flows[f].pc = "deploy"
  /\ \E ok \in BOOLEAN :
       flows' = [flows EXCEPT ![f] =
                   IF ok THEN [Emit(@, <<"discover-tools">>) EXCEPT !.pc = "tools"]
                   ELSE AwaitRejected(@)]
  /\ UNCHANGED <<build, kind, ignore, tableIgnore, cache, active>>

ToolsDiscovered(f) ==
  /\ flows[f].pc = "tools"
  /\ \E ok \in BOOLEAN :
       flows' = [flows EXCEPT ![f] =
                   IF ok THEN Finish(@, <<"SET_PRIMARY_TOOL">>) ELSE AwaitRejected(@)]
  /\ UNCHANGED <<build, kind, ignore, tableIgnore, cache, active>>

-----------------------------------------------------------------------------
(* Managed-Repository resolver *)

\* downloadScriptExtender once startDownload returned without a mod id: N1
\* deploys regardless, N2 and N3 skip the deployment only.
AfterStartDownload(fl) ==
  IF build.nx = "N1" THEN [Emit(fl, <<"deploy-single-mod">>) EXCEPT !.pc = "deploy"]
  ELSE [Emit(fl, <<"discover-tools">>) EXCEPT !.pc = "tools"]

\* util.opn(...) and return: the web page is opened and startDownload
\* resolves without a mod id.
OpenPage(fl) == AfterStartDownload(Emit(fl, <<"opn">>))

\* The account startDownload reads from the host state when it starts:
\* logged out, logged in without premium, or premium.
Accounts == {"out", "free", "premium"}

\* startDownload up to its first await.  N1 reads the account with a default
\* of {}, so its logged-out test never holds.
NexusStarted(f) ==
  /\ flows[f].pc = "nxstart"
  /\ \E account \in Accounts :
       LET fl == [flows[f] EXCEPT !.account = account] IN
       flows' = [flows EXCEPT ![f] =
                   IF build.nx # "N1" /\ account = "out" THEN OpenPage(fl)
                   ELSE [fl EXCEPT !.pc = "nxfiles"]]
  /\ UNCHANGED <<build, kind, ignore, tableIgnore, cache, active>>

\* The files of the mod page.  desc is the description: "null" or "" for
\* none, "gv" for one that includes the game version, "x" for one that does
\* not.  The file id of a file is its position in the answer.
FileRecs == [desc : {"null", "", "gv", "x"}, primary : BOOLEAN, ts : {1, 2}, cat : BOOLEAN]
FileLists == SeqsUpTo(FileRecs, MaxFiles)

\* The filter on the files, per revision.
Relevant(file, hasVersion) ==
  IF build.nx = "N2"
  THEN (hasVersion /\ file.desc = "gv") \/ (file.desc \in {"null", ""} /\ file.primary)
  ELSE IF hasVersion THEN file.desc = "gv" ELSE file.primary

\* N1 and N3 call f.description.includes(gameVersion) on every file: a null
\* description throws, and the catch opens the mod page.
FilterThrows(files, hasVersion) ==
  /\ build.nx # "N2"
  /\ hasVersion
  /\ \E i \in 1..Len(files) : files[i].desc = "null"

RelevantIds(files, hasVersion) ==
  SelectSeq([i \in 1..Len(files) |-> i], LAMBDA i : Relevant(files[i], hasVersion))

\* The file ids of a list of file ids.
IdsOf(ids) == {ids[k] : k \in 1..Len(ids)}

\* Array.sort on uploaded_timestamp: ascending in N1, descending in N2 and N3.
SortsBefore(a, b) == IF build.nx = "N1" THEN a.ts < b.ts ELSE a.ts > b.ts

RECURSIVE InsertFile(_, _, _)
InsertFile(i, sorted, files) ==
  IF sorted = <<>> THEN <<i>>
  ELSE IF SortsBefore(files[i], files[Head(sorted)]) THEN <<i>> \o sorted
  ELSE <<Head(sorted)>> \o InsertFile(i, Tail(sorted), files)

RECURSIVE SortFiles(_, _)
SortFiles(ids, files) ==
  IF ids = <<>> THEN <<>>
  ELSE InsertFile(ids[Len(ids)], SortFiles(SubSeq(ids, 1, Len(ids) - 1), files), files)

ModFiles(files, hasVersion) == SortFiles(RelevantIds(files, hasVersion), files)

FileResolvedForAnyone(fl, fileId, premium) ==
  [Emit([fl EXCEPT !.fileId = fileId], <<"start-download">>) EXCEPT !.pc = "dl"]

\* The end of startDownload with the file id known: non-premium users get the
\* file's page, premium users the download.
FileResolved(fl, fileId, premium) ==
  LET got == [fl EXCEPT !.fileId = fileId] IN
  IF ~premium THEN OpenPage(got)
  ELSE [Emit(got, <<"start-download">>) EXCEPT !.pc = "dl"]

\* The files N2's dialog offers: those with a category, the most recently
\* uploaded first, five at most.
ChoiceLimit == 5

FileChoiceListUnsorted(files) ==
  LET labelled == SelectSeq([i \in 1..Len(files) |-> i], LAMBDA i : files[i].cat) IN
  SubSeq(labelled, 1, IF Len(labelled) < ChoiceLimit THEN Len(labelled) ELSE ChoiceLimit)

FileChoiceList(files) ==
  LET labelled == SelectSeq([i \in 1..Len(files) |-> i], LAMBDA i : files[i].cat)
      sorted == SortFiles(labelled, files) IN
  SubSeq(sorted, 1, IF Len(sorted) < ChoiceLimit THEN Len(sorted) ELSE ChoiceLimit)

FileChoiceIds(files) == IdsOf(FileChoiceList(files))

\* value: (idx === 0): the entries of the dialog that come ticked.
Preselected(choices) == [k \in 1..Len(choices) |-> k = 1]

\* getModFiles answered (ok) or failed.
ModFilesFlow(fl, ok, files, hasVersion, premium) ==
  LET modFiles == ModFiles(files, hasVersion) IN
  IF ~ok \/ (build.nx = "N2" /\ files = <<>>) \/ FilterThrows(files, hasVersion)
  THEN OpenPage(fl)
  ELSE IF modFiles # <<>> THEN FileResolved(fl, modFiles[1], premium)
  ELSE IF build.nx = "N2" THEN [fl EXCEPT !.pc = "choose", !.choices = FileChoiceIds(files)]
  ELSE OpenPage(fl)

ModFilesAnswered(f) ==
  /\ flows[f].pc = "nxfiles"
  /\ \E ok \in BOOLEAN, files \in FileLists, hasVersion \in BOOLEAN :
       /\ (~ok => files = <<>>)
       /\ flows' = [flows EXCEPT ![f] =
                      ModFilesFlow(@, ok, files, hasVersion, @.account = "premium")]
  /\ UNCHANGED <<build, kind, ignore, tableIgnore, cache, active>>

\* N2's dialog to pick a file: Cancel (choice -1), Download with no single
\* choice ticked (0), or Download with the offered file id ticked.  The picked
\* id is looked up in modFiles, the filtered list, which is empty whenever
\* the dialog is shown: the lookup finds nothing, DataInvalid is thrown and
\* the catch opens the mod page.
FileChoices(fl) == {-1, 0} \cup fl.choices

FileChosenFlow(fl, choice, premium) ==
  LET modFiles == <<>>
      found == {i \in IdsOf(modFiles) : i = choice} IN
  IF choice = -1 THEN AfterStartDownload(Emit(fl, <<"u_cancel">>))
  ELSE IF choice = 0 THEN OpenPage(Emit(fl, <<"u_none">>))
  ELSE IF found = {} THEN OpenPage(Emit(fl, <<"u_pick">>))
  ELSE FileResolved(Emit(fl, <<"u_pick">>), choice, premium)

FileChosen(f) ==
  /\ flows[f].pc = "choose"
  /\ \E choice \in FileChoices(flows[f]) :
       flows' = [flows EXCEPT ![f] = FileChosenFlow(@, choice, @.account = "premium")]
  /\ UNCHANGED <<build, kind, ignore, tableIgnore, cache, active>>

-----------------------------------------------------------------------------
(* Specification *)

Next ==
  \E f \in DOMAIN flows :
    \/ \E g \in AllGames : OnGameModeActivated(f, g)
    \/ \E g \in AllGames : OnCheckModVersion(f, g)
    \/ Probed(f)
    \/ Fetched(f)
    \/ FeedAnswered(f)
    \/ UserDismiss(f)
    \/ UserMore(f)
    \/ UserIgnore(f)
    \/ UserOpenInBrowser(f)
    \/ UserOpenInVortex(f)
    \/ UserDownload(f)
    \/ UserClose(f)
    \/ Redirected(f)
    \/ Browsed(f)
    \/ DownloadCallback(f)
    \/ InstallCallback(f)
    \/ Deployed(f)
    \/ ToolsDiscovered(f)
    \/ NexusStarted(f)
    \/ ModFilesAnswered(f)
    \/ FileChosen(f)

Spec == Init /\ [][Next]_vars

\* Two flows at a time for one game: the handlers are registered on the
\* events as they are, so a trigger can arrive while another flow for the
\* game is suspended.  The latest revision of each module, for a game that
\* is served by the Managed-Repository resolver.
ConcFlowIds == {"f1", "f2"}

InitConc ==
  /\ build \in {[idx |-> "E", gh |-> "G2", nx |-> "N2"], [idx |-> "E", gh |-> "G2", nx |-> "N3"]}
  /\ kind = [skyrim |-> "nexus", falloutnv |-> "github"]
  /\ ignore = [g \in Games |-> FALSE]
  /\ tableIgnore = FALSE
  /\ cache = TableLatest(build)
  /\ active = "other"
  /\ flows = [f \in ConcFlowIds |-> IdleFlow]

ConcGames == {"skyrim", "other"}

NextConc ==
  \E f \in ConcFlowIds :
    \/ \E g \in ConcGames : OnGameModeActivated(f, g)
    \/ \E g \in ConcGames : OnCheckModVersion(f, g)
    \/ Probed(f)
    \/ UserDismiss(f)
    \/ UserMore(f)
    \/ UserIgnore(f)
    \/ UserDownload(f)
    \/ NexusStarted(f)
    \/ ModFilesAnswered(f)
    \/ FileChosen(f)
    \/ DownloadCallback(f)
    \/ InstallCallback(f)
    \/ Deployed(f)
    \/ ToolsDiscovered(f)

SpecConc == InitConc /\ [][NextConc]_vars

-----------------------------------------------------------------------------
(* Properties *)

InLog(fl, e) == \E i \in 1..Len(fl.log) : fl.log[i] = e

\* a is a later version than b, component by component.
Newer(a, b) ==
  \/ a[1] > b[1]
  \/ a[1] = b[1] /\ a[2] > b[2]
  \/ a[1] = b[1] /\ a[2] = b[2] /\ a[3] > b[3]

\* A flow of the update check that resolved a latest version for an installed
\* script extender.
ResolvedLatest(fl) == fl.cur # NoVer /\ fl.latest # NoVer /\ fl.src \in {"scrape", "gh"}

\* C1: for every installed version and every latest version the update check
\* resolves, in the scrape and in the Release-Feed resolver, the update
\* notification is raised exactly when the latest version is greater than the
\* installed one in major.minor.patch order.
C1_NotifiesIffNewer ==
  \A f \in FlowIds :
    ResolvedLatest(flows[f]) =>
      (InLog(flows[f], "n_update") <=> Newer(flows[f].latest, flows[f].cur))

\* C1 witness: the Release-Feed check of G2 raised the notification for a
\* release newer than the installed version.
C1_Witness ==
  \E f \in FlowIds :
    /\ ResolvedLatest(flows[f]) /\ flows[f].src = "gh" /\ build.gh = "G2"
    /\ InLog(flows[f], "n_update")
    /\ Newer(flows[f].latest, flows[f].cur)

\* C2: a check-mods-version run whose resolved latest version is equal to or
\* older than the installed version writes no mod attribute and raises no
\* notification.
C2_NotNewerIsNoOp ==
  \A f \in FlowIds :
    (/\ flows[f].trig = "cmv"
     /\ ResolvedLatest(flows[f])
     /\ ~Newer(flows[f].latest, flows[f].cur))
      => (flows[f].written = {} /\ ~InLog(flows[f], "attr") /\ ~InLog(flows[f], "n_update"))

\* C3: when the user picks Ignore on a prompt for a game, no error
\* notification is raised and the ignore flag of that game's own descriptor
\* is set (so that later gamemode-activated triggers for the game stay silent).
C3_IgnoreFlagsTheGame ==
  \A f \in FlowIds :
    InLog(flows[f], "u_ignore") =>
      (ignore[flows[f].game] /\ ~InLog(flows[f], "err"))

\* C4: once the ignore flag of a game is set, neither gamemode-activated nor
\* check-mods-version raises a notification for that game.  (The flow that
\* sets the flag ends in the same step, so a flow still running for a flagged
\* game was triggered after the flag was set.)
C4_IgnoredGameStaysSilent ==
  \A f \in FlowIds :
    (flows[f].game \in Games /\ ignore[flows[f].game] /\ flows[f].pc # "done") =>
      (~InLog(flows[f], "n_update") /\ ~InLog(flows[f], "n_missing"))

\* C5: the Release-Feed resolver requests a download only after the user
\* pressed Download; closing or dismissing its notification requests none.
C5_DownloadNeedsConsent ==
  \A f \in FlowIds :
    (flows[f].src = "gh" /\ InLog(flows[f], "start-download")) =>
      (InLog(flows[f], "u_download") /\ ~InLog(flows[f], "u_close"))

\* C6: a download that ends with an error other than already-downloaded is
\* never followed by an install request, on any path.
C6_FailedDownloadNeverInstalls ==
  \A f \in FlowIds :
    InLog(flows[f], "dl_err") => ~InLog(flows[f], "start-install")

\* C7: a download that ends with already-downloaded and a download id goes
\* on to the install like a successful one, on every path.
C7_AlreadyDownloadedInstalls ==
  \A f \in FlowIds :
    InLog(flows[f], "dl_exists") => InLog(flows[f], "start-install")

\* C8: an install that fails with UserCanceled raises no error notification,
\* and an install that fails with any other error raises one.
C8_OnlyRealErrorsAreShown ==
  \A f \in FlowIds :
    flows[f].src \in {"gh", "nx"} =>
      /\ InLog(flows[f], "inst_cancel") => ~InLog(flows[f], "err")
      /\ InLog(flows[f], "inst_err") => InLog(flows[f], "err")

\* C9: after the user cancels the dialog that picks the file, the workflow
\* makes no further call: no deploy-single-mod, no discover-tools, no
\* SET_PRIMARY_TOOL.
C9_CancelEndsTheWorkflow ==
  \A f \in FlowIds :
    InLog(flows[f], "u_cancel") =>
      /\ ~InLog(flows[f], "deploy-single-mod")
      /\ ~InLog(flows[f], "discover-tools")
      /\ ~InLog(flows[f], "SET_PRIMARY_TOOL")

\* C10: the Managed-Repository resolver makes the reconciliation calls
\* (setModEnabled, deploy-single-mod, discover-tools, SET_PRIMARY_TOOL) only
\* after an install that yielded a mod id, and none when the workflow ended by
\* opening a web page.
C10_ReconcileOnlyAfterInstall ==
  \A f \in FlowIds :
    (/\ flows[f].src = "nx"
     /\ \/ InLog(flows[f], "setModEnabled")
        \/ InLog(flows[f], "deploy-single-mod")
        \/ InLog(flows[f], "discover-tools")
        \/ InLog(flows[f], "SET_PRIMARY_TOOL"))
      => (InLog(flows[f], "inst_ok") /\ flows[f].modId /\ ~InLog(flows[f], "opn"))

\* The place of a call in the reconciliation; 0 for any other event.
StepRank(e) ==
  CASE e = "disable-old" -> 1
    [] e = "setModEnabled" -> 2
    [] e = "deploy-single-mod" -> 3
    [] e = "discover-tools" -> 4
    [] e = "SET_PRIMARY_TOOL" -> 5
    [] OTHER -> 0

\* C11: the reconciliation calls of a workflow are issued in the order
\* disable the previously enabled extender mods, enable the new mod, deploy
\* it, refresh the tools, set the primary tool: no later step is issued
\* before an earlier one.
C11_ReconcileInOrder ==
  \A f \in FlowIds :
    \A i, j \in 1..Len(flows[f].log) :
      (i < j /\ StepRank(flows[f].log[i]) > 0 /\ StepRank(flows[f].log[j]) > 0)
        => StepRank(flows[f].log[i]) <= StepRank(flows[f].log[j])

\* C11 witness: a reconciliation ran through all five steps.
C11_Witness ==
  \E f \in FlowIds :
    /\ InLog(flows[f], "disable-old")
    /\ InLog(flows[f], "setModEnabled")
    /\ InLog(flows[f], "deploy-single-mod")
    /\ InLog(flows[f], "discover-tools")
    /\ InLog(flows[f], "SET_PRIMARY_TOOL")

\* C12: every install that succeeded, through any of the three sources, is
\* followed by the reconciliation: the newly installed mod is enabled.
C12_InstallIsReconciled ==
  \A f \in FlowIds :
    InLog(flows[f], "inst_ok") => InLog(flows[f], "setModEnabled")

\* C13: when the forced deployment or the tools refresh rejects after a
\* successful install, no error notification is raised and the workflow
\* still ends.
C13_ReconcileFailureIsQuiet ==
  \A f \in FlowIds :
    (InLog(flows[f], "inst_ok") /\ InLog(flows[f], "await_rej")) =>
      (~InLog(flows[f], "err") /\ flows[f].pc = "done")

\* A flow that is suspended mid-flow: its handler has passed its guards and
\* the flow has not ended or lost its notification.
InProgress(fl) == fl.pc \notin {"idle", "done", "orphan"}

\* C14: at most one flow per game is in progress: a trigger that arrives
\* while a flow for the game is suspended starts no second flow for it.
C14_OneFlowPerGame ==
  \A f, h \in DOMAIN flows :
    (f # h /\ InProgress(flows[f]) /\ InProgress(flows[h]))
      => flows[f].game # flows[h].game

-----------------------------------------------------------------------------
(* The selections on their own *)

\* getLatestReleases and resolveDownloadLink applied to a feed, as
\* checkForUpdates and downloadScriptExtender apply them; floor is the
\* version the filter compares against.
Floors == InstalledVersions \cup {NoVer}

ReleaseSelection(feed, floor) ==
  LET current == GetLatestReleases(feed, floor) IN
  [pc |-> "releases", feed |-> feed, floor |-> floor, current |-> current,
   link |-> IF current = <<>> THEN "" ELSE ResolveDownloadLink(current[1].assets)]

ReleasesSelected(f) ==
  /\ flows[f].pc = "idle"
  /\ build.gh # "-"
  /\ \E feed \in Feeds, floor \in Floors :
       flows' = [flows EXCEPT ![f] = ReleaseSelection(feed, floor)]
  /\ UNCHANGED <<build, kind, ignore, tableIgnore, cache, active>>

\* The filter and the sort of startDownload applied to the files of the mod
\* page; hasVersion is whether the caller supplied the game version.
FileSelection(files, hasVersion) ==
  [pc |-> "files", files |-> files, hasVersion |-> hasVersion,
   modFiles |-> IF FilterThrows(files, hasVersion) THEN <<>>
                ELSE ModFiles(files, hasVersion)]

FilesSelected(f) ==
  /\ flows[f].pc = "idle"
  /\ build.nx # "-"
  /\ \E files \in FileLists, hasVersion \in BOOLEAN :
       flows' = [flows EXCEPT ![f] = FileSelection(files, hasVersion)]
  /\ UNCHANGED <<build, kind, ignore, tableIgnore, cache, active>>

NextSelect == \E f \in FlowIds : ReleasesSelected(f) \/ FilesSelected(f)

SpecSelect == Init /\ [][NextSelect]_vars

\* C15: the release the Release-Feed resolver selects is never a pre-release
\* and never one whose tag is no semantic version, whatever the feed lists
\* and in whatever order.
C15_NoPreReleaseSelected ==
  \A f \in FlowIds :
    (flows[f].pc = "releases" /\ flows[f].current # <<>>) =>
      (~flows[f].current[1].pre /\ flows[f].current[1].tag # NoVer)

\* C15 witness: the feed lists a pre-release first whose version is later
\* than that of the release selected.
C15_Witness ==
  \E f \in FlowIds :
    /\ flows[f].pc = "releases" /\ flows[f].current # <<>>
    /\ flows[f].feed[1].pre /\ flows[f].feed[1].tag # NoVer
    /\ Newer(flows[f].feed[1].tag, flows[f].current[1].tag)

\* The feed with its entries listed in the order p.
Permuted(feed, p) == [i \in 1..Len(feed) |-> feed[p[i]]]

\* C16: the release selected has the greatest version among the releases of
\* the feed that are no pre-release and carry a semantic version, and every
\* permutation of the feed yields the same selected version.
C16_GreatestVersionSelected ==
  \A f \in FlowIds :
    (flows[f].pc = "releases" /\ flows[f].current # <<>>) =>
      LET feed == flows[f].feed
          selected == flows[f].current[1].tag IN
      /\ \A i \in 1..Len(feed) :
           (~feed[i].pre /\ feed[i].tag # NoVer) => ~Newer(feed[i].tag, selected)
      /\ \A p \in Permutations(1..Len(feed)) :
           LET other == GetLatestReleases(Permuted(feed, p), flows[f].floor) IN
           other # <<>> /\ other[1].tag = selected

\* C16 witness: the feed lists an earlier release before the latest one, and
\* the latest one is selected.
C16_Witness ==
  \E f \in FlowIds :
    /\ flows[f].pc = "releases" /\ Len(flows[f].current) = 2
    /\ Newer(flows[f].feed[2].tag, flows[f].feed[1].tag)
    /\ flows[f].current[1].tag = flows[f].feed[2].tag

\* C17: when several files pass the candidate filter, the file selected is
\* one with the latest upload timestamp.
C17_LatestUploadSelected ==
  \A f \in FlowIds :
    (flows[f].pc = "files" /\ flows[f].modFiles # <<>>) =>
      \A i \in IdsOf(flows[f].modFiles) :
        flows[f].files[i].ts <= flows[f].files[flows[f].modFiles[1]].ts

\* The candidate filter as specified: the description contains the game
\* version the caller supplied, or there is no description and the file is
\* flagged primary.
IsCandidate(file, hasVersion) ==
  \/ hasVersion /\ file.desc = "gv"
  \/ file.desc \in {"null", ""} /\ file.primary

\* C18: a file is a candidate exactly when its description contains the
\* supplied game version or it has no description and is flagged primary.
C18_CandidateFilter ==
  \A f \in FlowIds :
    flows[f].pc = "files" =>
      \A i \in 1..Len(flows[f].files) :
        (i \in IdsOf(flows[f].modFiles)) <=> IsCandidate(flows[f].files[i], flows[f].hasVersion)

\* C19: when no file passes the filter and the user ticks exactly one of
\* the offered files and confirms Download, that file's id is the one used
\* for the download or the file page.
C19_ChoiceResolvesToFile ==
  \A f \in FlowIds :
    InLog(flows[f], "u_pick") =>
      (flows[f].fileId \in flows[f].choices
        /\ (InLog(flows[f], "start-download") \/ InLog(flows[f], "opn")))

\* C20: the asset the Release-Feed resolver downloads does not depend on the
\* order in which the selected release lists its assets.
C20_AssetIndependentOfOrder ==
  \A f \in FlowIds :
    (flows[f].pc = "releases" /\ flows[f].current # <<>>) =>
      LET assets == flows[f].current[1].assets IN
      \A p \in Permutations(1..Len(assets)) :
        ResolveDownloadLink(Permuted(assets, p)) = flows[f].link

\* C21: when the Release-Feed source answers 403 with a remaining quota of
\* 0, the update check ends with the installed version: no error
\* notification, no update notification, no download, no attribute written,
\* and the game's ignore flag stays unset.
C21_RateLimitIsSilent ==
  \A f \in FlowIds :
    (flows[f].status = 403 /\ flows[f].remaining = 0) =>
      /\ flows[f].pc = "done"
      /\ ~InLog(flows[f], "err")
      /\ ~InLog(flows[f], "n_update") /\ ~InLog(flows[f], "n_missing")
      /\ ~InLog(flows[f], "start-download")
      /\ flows[f].written = {}
      /\ ~ignore[flows[f].game]

\* C21 witness: a check-mods-version run ended on the rate limit.
C21_Witness ==
  \E f \in FlowIds :
    /\ flows[f].status = 403 /\ flows[f].remaining = 0
    /\ flows[f].trig = "cmv" /\ flows[f].cur # NoVer
    /\ flows[f].pc = "done" /\ InLog(flows[f], "ratelimited")

\* C22: every Release-Feed answer with a status outside 2xx and a remaining
\* quota of 0 is taken as a rate limit and raises no error notification.
C22_AnyStatusRateLimit ==
  \A f \in FlowIds :
    (flows[f].status \notin {0, 200} /\ flows[f].remaining = 0) =>
      (InLog(flows[f], "ratelimited") /\ ~InLog(flows[f], "err"))

\* C23: when the scrape resolver fails, no notification is raised and the
\* check-mods-version handler writes no newestVersion attribute.
C23_ScrapeFailureDecidesNothing ==
  \A f \in FlowIds :
    InLog(flows[f], "scrape_failed") =>
      /\ ~InLog(flows[f], "n_update")
      /\ flows[f].written = {} /\ ~InLog(flows[f], "attr")

\* C24: an error notification is raised only for a failed download or install;
\* a Release-Feed flow whose resolution failed (no qualifying release, no
\* matching asset) shows none.  Resolution precedes the prompt, so an error
\* notification in a Release-Feed flow comes after the prompt's notification.
C24_ErrorOnlyAfterPrompt ==
  \A f \in FlowIds :
    (flows[f].src = "gh" /\ InLog(flows[f], "err")) =>
      (InLog(flows[f], "n_missing") \/ InLog(flows[f], "n_update"))

\* C25: whenever automatic resolution fails in the not-installed flow (rate
\* limit, unreachable source, no candidate file), the user is directed to the
\* manual page, with the Release-Feed resolver as with the Managed-Repository
\* resolver.
ResolutionFailed(fl) ==
  \/ /\ fl.src = "gh"
     /\ InLog(fl, "ratelimited") \/ (InLog(fl, "err") /\ ~InLog(fl, "n_missing"))
  \/ /\ fl.src = "nx"
     /\ InLog(fl, "u_download") /\ fl.pc \notin {"nxstart", "nxfiles", "choose"}
     /\ ~InLog(fl, "start-download") /\ ~InLog(fl, "u_cancel")

C25_FailureOpensManualPage ==
  \A f \in FlowIds :
    (flows[f].purpose = "missing" /\ ResolutionFailed(flows[f])) =>
      InLog(flows[f], "opn")

-----------------------------------------------------------------------------
(* Progress *)

\* The steps the program and its host take on their own: the probe of the
\* local installation, the account test of startDownload, and the callbacks
\* of start-download, start-install-download, deploy-single-mod and
\* discover-tools.  The remote answers (Fetched, FeedAnswered, Redirected,
\* ModFilesAnswered) and the user's clicks are not among them: http.get and
\* https.get are called without a timeout, so nothing in the program ends a
\* request the remote never answers.
LocalStep ==
  \E f \in DOMAIN flows :
    \/ Probed(f)
    \/ NexusStarted(f)
    \/ DownloadCallback(f)
    \/ InstallCallback(f)
    \/ Deployed(f)
    \/ ToolsDiscovered(f)

SpecLive == Init /\ [][Next]_vars /\ WF_vars(LocalStep)

\* C26: every version-check flow eventually resolves even if the remote
\* never answers: a flow waiting on the Scrape request or on the Release-Feed
\* request eventually leaves that wait.
C26_RequestEventuallyEnds ==
  \A f \in FlowIds :
    (flows[f].pc \in {"fetch", "feed"}) ~> (flows[f].pc \notin {"fetch", "feed"})

\* C27: once the Scrape resolver has resolved the latest version of a game,
\* every later check for that game (gamemode-activated or check-mods-version)
\* uses the cached value and issues no further fetch.  The descriptor's
\* latestVersion differs from the table's only after a fetch resolved it.
C27_NoFetchOnceCached ==
  \A f \in FlowIds :
    (flows[f].src = "scrape" /\ cache[flows[f].game] # TableLatest(build)[flows[f].game]) =>
      flows[f].pc # "fetch"

-----------------------------------------------------------------------------
(* The version normalizer on its own *)

\* The version token of a file name: three segments of digits separated by
\* underscores, a string of characters.
MaxDigits == 3

Digits == {"0", "1"}
Letters == {"a", "b"}
Segments == UNION {[1..n -> Digits] : n \in 1..MaxDigits}
Tokens == {<<a, b, c>> : a \in Segments, b \in Segments, c \in Segments}

\* The text the match captures for a token.
TokenString(token) == token[1] \o <<"_">> \o token[2] \o <<"_">> \o token[3]

\* .replace(/\_/g, '.')
ReplaceUnderscores(s) == [i \in 1..Len(s) |-> IF s[i] = "_" THEN "." ELSE s[i]]

\* .replace(/([a-z]+)/g, '')
RemoveLetters(s) == SelectSeq(s, LAMBDA c : c \notin Letters)

\* .replace(/[0]+/g, '0'): every run of zeros becomes one zero.
RECURSIVE CollapseZeros(_)
CollapseZeros(s) ==
  IF s = <<>> THEN <<>>
  ELSE IF Len(s) > 1 /\ s[1] = "0" /\ s[2] = "0" THEN CollapseZeros(Tail(s))
  ELSE <<s[1]>> \o CollapseZeros(Tail(s))

\* .replace(/(0)[1-9]/g, r => r.replace('0', '')): scanning from the left,
\* every zero that a non-zero digit follows is removed, wherever it stands.
RECURSIVE RemoveZeroBeforeDigit(_)
RemoveZeroBeforeDigit(s) ==
  IF s = <<>> THEN <<>>
  ELSE IF Len(s) > 1 /\ s[1] = "0" /\ s[2] \in Digits \ {"0"}
       THEN <<s[2]>> \o RemoveZeroBeforeDigit(SubSeq(s, 3, Len(s)))
  ELSE <<s[1]>> \o RemoveZeroBeforeDigit(Tail(s))

\* newVersion of checkForUpdate.
NewVersion(token) ==
  RemoveZeroBeforeDigit(CollapseZeros(RemoveLetters(ReplaceUnderscores(TokenString(token)))))

\* The text split at its dots.
RECURSIVE SplitAtDots(_)
SplitAtDots(s) ==
  IF \A i \in 1..Len(s) : s[i] # "." THEN <<s>>
  ELSE LET d == CHOOSE i \in 1..Len(s) : s[i] = "." /\ \A j \in 1..(i - 1) : s[j] # "." IN
       <<SubSeq(s, 1, d - 1)>> \o SplitAtDots(SubSeq(s, d + 1, Len(s)))

\* semver.valid on a text of digits and dots: three numeric identifiers,
\* none with a leading zero.
SemverValid(s) ==
  LET parts == SplitAtDots(s) IN
  /\ Len(parts) = 3
  /\ \A i \in 1..3 : parts[i] # <<>> /\ (Len(parts[i]) > 1 => parts[i][1] # "0")

Normalization(token) ==
  [pc |-> "normalized", token |-> token, newVersion |-> NewVersion(token),
   valid |-> SemverValid(NewVersion(token))]

Normalized(f) ==
  /\ flows[f].pc = "idle"
  /\ \E token \in Tokens : flows' = [flows EXCEPT ![f] = Normalization(token)]
  /\ UNCHANGED <<build, kind, ignore, tableIgnore, cache, active>>

NextNormalize == \E f \in FlowIds : Normalized(f)

SpecNormalize == Init /\ [][NextNormalize]_vars

\* A segment without its leading zeros; the single digit 0 when it consists
\* of zeros only.
RECURSIVE WithoutLeadingZeros(_)
WithoutLeadingZeros(seg) ==
  IF Len(seg) > 1 /\ seg[1] = "0" THEN WithoutLeadingZeros(Tail(seg)) ELSE seg

\* C28: for every token of three underscore-separated digit segments, the
\* normalizer's result is the token with dots for underscores and each
\* segment without its leading zeros, a segment of zeros only being the
\* single digit 0.
C28_LeadingZerosRemoved ==
  \A f \in FlowIds :
    flows[f].pc = "normalized" =>
      LET token == flows[f].token IN
      flows[f].newVersion =
        WithoutLeadingZeros(token[1]) \o <<".">> \o WithoutLeadingZeros(token[2])
          \o <<".">> \o WithoutLeadingZeros(token[3])

\* The number a text of digits writes.
DigitValue(c) == IF c = "0" THEN 0 ELSE 1

RECURSIVE SegmentValue(_)
SegmentValue(seg) ==
  IF seg = <<>> THEN 0
  ELSE 10 * SegmentValue(SubSeq(seg, 1, Len(seg) - 1)) + DigitValue(seg[Len(seg)])

\* C29: the normalizer never changes a segment's magnitude: each segment of
\* the result writes the same number as the segment of the token it came
\* from, segments such as 10, 100 and 101 included.
C29_MagnitudeKept ==
  \A f \in FlowIds :
    flows[f].pc = "normalized" =>
      LET parts == SplitAtDots(flows[f].newVersion) IN
      /\ Len(parts) = 3
      /\ \A i \in 1..3 : SegmentValue(parts[i]) = SegmentValue(flows[f].token[i])

\* C30: a gamemode-activated flow that found no installed binary enters the
\* not-installed path directly: once it is past the request its resolver
\* makes, it has presented the not-installed prompt, and it has made no
\* version comparison and raised no update prompt.
C30_NotInstalledPrompts ==
  \A f \in FlowIds :
    (flows[f].trig = "gma" /\ flows[f].purpose = "missing" /\ flows[f].pc # "feed") =>
      (InLog(flows[f], "n_missing") /\ ~InLog(flows[f], "n_update"))

\* C31: the installed-version probe never rejects: it resolves to nothing
\* when the file does not exist and also when the file exists but its
\* version cannot be read or coerced, so a binary with an unreadable version
\* is routed like a missing one: gamemode-activated takes the not-installed
\* path, check-mods-version ends at once.
C31_UnreadableIsAbsent ==
  \A f \in FlowIds :
    flows[f].binary \in {"absent", "unreadable"} =>
      /\ flows[f].cur = NoVer
      /\ ~InLog(flows[f], "throw")
      /\ flows[f].trig = "gma" => flows[f].purpose = "missing"
      /\ flows[f].trig = "cmv" => (flows[f].pc = "done" /\ flows[f].log = <<>>)

\* C31 witness: a binary with an unreadable version was probed and the
\* not-installed prompt presented.
C31_Witness ==
  \E f \in FlowIds :
    /\ flows[f].binary = "unreadable" /\ flows[f].trig = "gma"
    /\ InLog(flows[f], "n_missing")

-----------------------------------------------------------------------------
(* The dialog to pick a file on its own *)

\* The files of a mod page for which the dialog is shown: none is relevant
\* (a description without the game version, not primary); they differ in
\* upload time and in whether they carry a category.
MaxPageFiles == 6

PageFileRecs == [desc : {"x"}, primary : {FALSE}, ts : {1, 2, 3}, cat : BOOLEAN]
PageFileLists == SeqsUpTo(PageFileRecs, MaxPageFiles)

ChoicesOffered(f) ==
  /\ flows[f].pc = "idle"
  /\ build.nx = "N2"
  /\ \E files \in PageFileLists :
       flows' = [flows EXCEPT ![f] =
                   [pc |-> "choices", files |-> files, choices |-> FileChoiceList(files),
                    value |-> Preselected(FileChoiceList(files))]]
  /\ UNCHANGED <<build, kind, ignore, tableIgnore, cache, active>>

NextChoices == \E f \in FlowIds : ChoicesOffered(f)

SpecChoices == Init /\ [][NextChoices]_vars

\* C32: the dialog offers at most 5 files, each with a category, in
\* descending order of upload time, and they are the most recently uploaded
\* files with a category; exactly the first one is preselected.
C32_ChoicesAreLatestFive ==
  \A f \in FlowIds :
    flows[f].pc = "choices" =>
      LET files == flows[f].files
          choices == flows[f].choices
          labelled == {i \in 1..Len(files) : files[i].cat} IN
      /\ Len(choices) = IF Cardinality(labelled) < 5 THEN Cardinality(labelled) ELSE 5
      /\ Cardinality(IdsOf(choices)) = Len(choices)
      /\ IdsOf(choices) \subseteq labelled
      /\ \A k \in 1..(Len(choices) - 1) : files[choices[k]].ts >= files[choices[k + 1]].ts
      /\ \A i \in labelled \ IdsOf(choices) :
           \A k \in 1..Len(choices) : files[i].ts <= files[choices[k]].ts
      /\ \A k \in 1..Len(choices) : flows[f].value[k] <=> (k = 1)

\* C32 witness: six files with a category, the oldest listed first, the
\* latest listed last; five are offered and the oldest is left out.
C32_Witness ==
  \E f \in FlowIds :
    /\ flows[f].pc = "choices"
    /\ Len(flows[f].files) = 6 /\ \A i \in 1..6 : flows[f].files[i].cat
    /\ flows[f].files[1].ts = 1 /\ \A i \in 2..6 : flows[f].files[i].ts > 1
    /\ flows[f].files[6].ts = 3 /\ flows[f].files[2].ts = 2
    /\ Len(flows[f].choices) = 5 /\ 1 \notin IdsOf(flows[f].choices)
    /\ flows[f].choices[1] = 6

\* C33: the Managed-Repository resolver emits start-download only for a
\* logged-in premium user once a file id was determined; for a logged-out or
\* non-premium user, and when no file id was determined, startDownload only
\* opens the mod (or file) page: no download and no install is requested.
PastStartDownload(fl) ==
  /\ fl.src = "nx" /\ InLog(fl, "u_download")
  /\ fl.pc \notin {"nxstart", "nxfiles", "choose"}

CallsOnTarget(fl) ==
  \/ /\ fl.src \in {"nx", "gh"}
     /\ InLog(fl, "start-download")
  \/ InLog(fl, "setModEnabled") \/ InLog(fl, "deploy-single-mod")
  \/ InLog(fl, "discover-tools") \/ InLog(fl, "SET_PRIMARY_TOOL")

\* C34: every download, enable, deploy, tools-refresh and primary-tool call
\* of a flow that was triggered for a game targets that game and its
\* profile, even if the active game changes while the flow is suspended.
C34_CallsTargetTriggerGame ==
  \A f \in DOMAIN flows :
    CallsOnTarget(flows[f]) => flows[f].target = flows[f].game

\* C35: a gamemode-activated trigger raises no prompt and starts no workflow
\* when the game is unsupported, its ignore flag is set, its path is
\* undiscovered, its store is Xbox or Epic, or its mod list holds a mod
\* marked as script extender, enabled or disabled; the installed binary is
\* then not probed.
C35_GatedTriggerDoesNothing ==
  \A f \in FlowIds :
    (build.idx = "E" /\ flows[f].trig = "gma" /\ flows[f].gate # "-") =>
      /\ flows[f].pc = "done" /\ flows[f].log = <<>>
      /\ flows[f].binary = "-" /\ flows[f].purpose = "-"

\* C35 witness: a trigger for a supported game whose mod list holds only a
\* disabled script-extender mod ended at the gate.
C35_Witness ==
  \E f \in FlowIds :
    /\ build.idx = "E" /\ flows[f].trig = "gma" /\ flows[f].game \in Games
    /\ flows[f].gate = "se-disabled" /\ flows[f].pc = "done"

-----------------------------------------------------------------------------
(* The attributes check-mods-version writes, on their own *)

\* A run of onCheckModVersion for game g with the game discovered in a
\* supported store: cur is what the probe resolved to, latestVersion what the
\* update check resolved to, mods the mods the event handed over.  checked
\* is whether the run got as far as the probe.
CheckModVersionRun(g, cur, latestVersion, mods) ==
  LET start == CheckModVersionFlow(g, TRUE, "steam")
      end == VersionAttributes([start EXCEPT !.cur = cur], latestVersion, mods) IN
  [pc |-> "attributes", game |-> g, cur |-> cur, latest |-> latestVersion, mods |-> mods,
   checked |-> start.pc = "probe",
   written |-> IF start.pc = "probe" THEN end.written ELSE {}]

AttributesWritten(f) ==
  /\ flows[f].pc = "idle"
  /\ \E g \in Games, cur \in InstalledVersions, latestVersion \in Versions \cup {NoVer},
        mods \in ModDicts :
       flows' = [flows EXCEPT ![f] = CheckModVersionRun(g, cur, latestVersion, mods)]
  /\ UNCHANGED <<build, kind, ignore, tableIgnore, cache, active>>

NextAttributes == \E f \in FlowIds : AttributesWritten(f)

SpecAttributes == Init /\ [][NextAttributes]_vars

\* C36: a check-mods-version run writes newestVersion only on mods marked as
\* script extender, enabled in the active profile, not sourced from Nexus
\* Mods and of a version other than the resolved latest; for a game whose
\* descriptor has a Nexus Mods entry it writes nothing and checks nothing.
C36_OnlyStaleExtendersWritten ==
  \A f \in FlowIds :
    (flows[f].pc = "attributes" /\ build.idx = "E") =>
      LET mods == flows[f].mods IN
      /\ \A m \in flows[f].written :
           /\ mods[m].se /\ mods[m].enabled /\ ~mods[m].nexus
           /\ mods[m].version # flows[f].latest
           /\ flows[f].latest # NoVer
      /\ kind[flows[f].game] = "nexus" => (flows[f].written = {} /\ ~flows[f].checked)

\* C36 witness: of two enabled script-extender mods of an older version, the
\* one sourced from Nexus Mods is left alone and the other is written.
C36_Witness ==
  \E f \in FlowIds :
    /\ flows[f].pc = "attributes" /\ build.idx = "E"
    /\ flows[f].mods["m1"].se /\ flows[f].mods["m1"].enabled /\ flows[f].mods["m1"].nexus
    /\ flows[f].mods["m1"].version # flows[f].latest
    /\ flows[f].written = {"m2"}

\* C37: a Release-Feed response with status 403 and no remaining-quota
\* header is treated like a rate limit, the missing header counting as 0:
\* the flow ends without an error notification, a prompt or a download, and
\* the update check leaves the installed version standing.
C37_MissingQuotaIsRateLimit ==
  \A f \in FlowIds :
    (flows[f].status = 403 /\ flows[f].remaining = -1) =>
      /\ flows[f].pc = "done" /\ flows[f].log = <<"ratelimited">>
      /\ flows[f].latest = NoVer /\ flows[f].written = {}

\* C37 witness: an update check for an installed script extender got 403
\* without the header and ended.
C37_Witness ==
  \E f \in FlowIds :
    /\ flows[f].status = 403 /\ flows[f].remaining = -1
    /\ flows[f].trig = "cmv" /\ flows[f].purpose = "update" /\ flows[f].cur # NoVer
    /\ build.gh = "G2" /\ flows[f].pc = "done"

-----------------------------------------------------------------------------
(* testMisconfiguredPrimaryTool *)

\* A path is a text of pieces of names, dots and separators, "/" standing
\* for the separator of the platform.
\* input.toLowerCase()
ToLowerCase(text) ==
  LET lower(name) == CASE name = "Game" -> "game"
                       [] name = "SKSE" -> "skse"
                       [] name = "SKSE_Loader" -> "skse_loader"
                       [] OTHER -> name
  IN [i \in 1..Len(text) |-> lower(text[i])]

\* path.normalize, as far as these texts go: a run of separators becomes
\* one; a trailing separator is kept.
RECURSIVE PathNormalize(_)
PathNormalize(text) ==
  IF text = <<>> THEN <<>>
  ELSE IF Len(text) > 1 /\ text[1] = "/" /\ text[2] = "/" THEN PathNormalize(Tail(text))
  ELSE <<text[1]>> \o PathNormalize(Tail(text))

\* .replace(/\/$|\\$/, ''): one trailing separator is removed.
WithoutTrailingSeparator(text) ==
  IF text # <<>> /\ text[Len(text)] = "/" THEN SubSeq(text, 1, Len(text) - 1) ELSE text

\* Where the last separator of a text is, 0 when it has none.
LastSeparator(text) ==
  LET at == {i \in 1..Len(text) : text[i] = "/"} IN
  IF at = {} THEN 0 ELSE CHOOSE i \in at : \A j \in at : j <= i

\* path.basename: what follows the last separator, a trailing separator
\* aside.
PathBasename(text) ==
  LET t == WithoutTrailingSeparator(text) IN SubSeq(t, LastSeparator(t) + 1, Len(t))

\* path.dirname: the text before the last separator, a trailing separator
\* aside; "." when there is none; the separator stays when only the root is
\* left before it.
PathDirname(text) ==
  LET t == WithoutTrailingSeparator(text)
      cut == SubSeq(t, 1, LastSeparator(t) - 1) IN
  IF LastSeparator(t) = 0 THEN <<".">>
  ELSE IF cut = <<"c:">> THEN cut \o <<"/">> ELSE cut

\* path.join(dir, file)
PathJoin(dir, file) == PathNormalize(dir \o <<"/">> \o file)

\* supportData[gameMode].scriptExtExe
ScriptExtExe(g) ==
  IF g = "falloutnv" THEN <<"nvse_loader", ".", "exe">> ELSE <<"skse_loader", ".", "exe">>

\* discovery.path of the game and the path of its primary tool.
GamePaths == {<<"c:", "/">>, <<"c:", "/", "Game">>, <<"c:", "/", "Game", "/">>}
ToolPaths ==
  {<<"c:", "/", "skse_loader", ".", "exe">>,
   <<"c:", "/", "game", "/", "SKSE_Loader", ".", "exe">>,
   <<"c:", "/", "Game", "/", "tool", ".", "exe">>,
   <<"c:", "/", "other", "/", "skse_loader", ".", "exe">>,
   <<"c:", "/", "other", "/", "tool", ".", "exe">>}

\* One run of the test on the host state st: what it leaves of the primary
\* tool's path, and whether it dispatched addDiscoveredTool and
\* setToolVisible.  The result of the test is undefined on every path.
TestMisconfiguredPrimaryTool(st) ==
  LET quiet == [path |-> st.tool, dispatched |-> FALSE]
      exe == ScriptExtExe(st.game)
      expectedPath == PathJoin(st.discovery, exe)
      normalize(text) == PathNormalize(ToLowerCase(text))
  IN
  IF st.game \notin Games \/ ~st.primary THEN quiet
  ELSE IF st.discovery = <<>> \/ st.tool = <<>> THEN quiet
  ELSE IF st.store \in UnsupportedStores THEN quiet
  ELSE IF /\ st.installed
          /\ PathNormalize(PathBasename(ToLowerCase(st.tool))) = normalize(exe)
          /\ PathNormalize(PathDirname(ToLowerCase(st.tool)))
               # WithoutTrailingSeparator(normalize(st.discovery))
       THEN [path |-> expectedPath, dispatched |-> TRUE]
  ELSE quiet

\* The test is registered for gamemode-activated and reads the active game.
PrimaryToolTested(f) ==
  /\ flows[f].pc = "idle"
  /\ \E primary \in BOOLEAN, discovery \in GamePaths \cup {<<>>},
        tool \in ToolPaths \cup {<<>>}, store \in Stores, file \in ProbeInputs :
       LET st == [game |-> active, primary |-> primary, discovery |-> discovery,
                  tool |-> tool, store |-> store,
                  installed |-> GetScriptExtenderVersion(file) # NoVer]
           run == TestMisconfiguredPrimaryTool(st) IN
       flows' = [flows EXCEPT ![f] =
                   [pc |-> "tooltest", before |-> st, tool |-> run.path,
                    dispatched |-> <<run.dispatched>>]]
  /\ UNCHANGED <<build, kind, ignore, tableIgnore, cache, active>>

\* The test runs again on the state the first run left.
PrimaryToolRetested(f) ==
  /\ flows[f].pc = "tooltest"
  /\ Len(flows[f].dispatched) = 1
  /\ LET run == TestMisconfiguredPrimaryTool([flows[f].before EXCEPT !.tool = flows[f].tool]) IN
     flows' = [flows EXCEPT ![f].tool = run.path,
                            ![f].dispatched = Append(@, run.dispatched)]
  /\ UNCHANGED <<build, kind, ignore, tableIgnore, cache, active>>

\* The host activating a game while no test is running.
ToolGameActivated ==
  /\ \A f \in FlowIds : flows[f].pc = "idle"
  /\ \E g \in AllGames : active' = g
  /\ UNCHANGED <<build, kind, ignore, tableIgnore, cache, flows>>

NextTool ==
  \/ ToolGameActivated
  \/ \E f \in FlowIds : PrimaryToolTested(f)
  \/ \E f \in FlowIds : PrimaryToolRetested(f)

SpecTool == Init /\ [][NextTool]_vars

\* The names of the directory a path lies in, case aside.
DirectoryNames(text) ==
  SelectSeq(SubSeq(ToLowerCase(text), 1, LastSeparator(text)), LAMBDA t : t # "/")

\* The names of a directory path, case aside.
FolderNames(text) == SelectSeq(ToLowerCase(text), LAMBDA t : t # "/")

\* C38: the primary-tool test changes host state only when the extender
\* binary is installed, the primary tool's file name equals the extender
\* executable and its directory differs from the game directory, and then
\* it rewrites the tool's path to the expected path; in every other case it
\* dispatches nothing, and a second run after a correction dispatches nothing.
C38_ToolCorrectedOnlyWhenMisplaced ==
  \A f \in FlowIds :
    flows[f].pc = "tooltest" =>
      LET st == flows[f].before IN
      /\ flows[f].dispatched[1] =>
           /\ st.installed
           /\ ToLowerCase(PathBasename(st.tool)) = ScriptExtExe(st.game)
           /\ DirectoryNames(st.tool) # FolderNames(st.discovery)
      /\ (Len(flows[f].dispatched) = 2 /\ flows[f].dispatched[1]) => ~flows[f].dispatched[2]

-----------------------------------------------------------------------------
(* The installer: testSupported and installScriptExtender *)

MaxArchive == 3

\* The entries an archive may list; a directory ends with a separator.
ArchiveFiles ==
  {<<"skse_loader", ".", "exe">>,
   <<"skse", "/", "skse_loader", ".", "exe">>,
   <<"SKSE", "/", "SKSE_Loader", ".", "exe">>,
   <<"skse", "/", "Data", "/">>,
   <<"skse", "/", "Data", "/", "a", ".", "pex">>,
   <<"docs", "/", "skse", "/", "readme", ".", "txt">>,
   <<"readme", ".", "txt">>,
   <<"LICENSE">>}

\* The file lists of an archive: no entry twice.
ArchiveLists ==
  UNION {{fl \in [1..n -> ArchiveFiles] : \A i, j \in 1..n : fl[i] = fl[j] => i = j} :
           n \in 0..MaxArchive}

\* String.indexOf, counted from 1: where sub first occurs in text, 0 when
\* it does not.
IndexOf(text, sub) ==
  LET at == {i \in 1..(Len(text) - Len(sub) + 1) : SubSeq(text, i, i + Len(sub) - 1) = sub} IN
  IF at = {} THEN 0 ELSE CHOOSE i \in at : \A j \in at : i <= j

\* testSupported: the answer's supported.
TestSupported(files, gameId) ==
  /\ gameId \in Games
  /\ \E i \in 1..Len(files) : PathBasename(files[i]) = ScriptExtExe(gameId)

\* installScriptExtender: the instructions it resolves to, for the version
\* the probe of the unpacked loader resolved to.
InstallScriptExtender(files, gameId, scriptExtenderVersion) ==
  LET found == {i \in 1..Len(files) :
                  ToLowerCase(PathBasename(files[i])) = ToLowerCase(ScriptExtExe(gameId))}
      scriptExtender == files[CHOOSE i \in found : \A j \in found : i <= j]
      idx == IndexOf(scriptExtender, PathBasename(scriptExtender))
      rootPath == PathDirname(scriptExtender)
      filtered == SelectSeq(files, LAMBDA file :
                    IndexOf(file, rootPath) # 0 /\ file[Len(file)] # "/")
      copy(file) == [type |-> "copy", source |-> file,
                     destination |-> PathNormalize(SubSeq(file, idx, Len(file)))]
      attributes == <<[type |-> "attribute", key |-> "version", value |-> scriptExtenderVersion],
                      [type |-> "rule", rule |-> "conflicts", game |-> gameId,
                       versionMatch |-> scriptExtenderVersion]>>
  IN [i \in 1..Len(filtered) |-> copy(filtered[i])]
       \o attributes \o <<[type |-> "setmodtype", value |-> "dinput"]>>

\* The host offers an archive to the installer and calls install when the
\* test answers supported.
ArchiveInstalled(f) ==
  /\ flows[f].pc = "idle"
  /\ \E files \in ArchiveLists, gameId \in AllGames, file \in ProbeInputs :
       LET supported == TestSupported(files, gameId) IN
       flows' = [flows EXCEPT ![f] =
                   [pc |-> "installed", game |-> gameId, files |-> files,
                    supported |-> supported,
                    instructions |->
                      IF supported
                      THEN InstallScriptExtender(files, gameId, GetScriptExtenderVersion(file))
                      ELSE <<>>]]
  /\ UNCHANGED <<build, kind, ignore, tableIgnore, cache, active>>

NextInstall == \E f \in FlowIds : ArchiveInstalled(f)

SpecInstall == Init /\ [][NextInstall]_vars

\* The first entry of a list that is the extender's loader, case aside.
LoaderOf(files, gameId) ==
  LET found == {i \in 1..Len(files) :
                  ToLowerCase(PathBasename(files[i])) = ToLowerCase(ScriptExtExe(gameId))}
  IN files[CHOOSE i \in found : \A j \in found : i <= j]

\* Whether an entry lies under the directory of the loader, and its path
\* relative to that directory.
UnderLoader(file, loader) ==
  SubSeq(file, 1, LastSeparator(loader)) = SubSeq(loader, 1, LastSeparator(loader))

RelativeToLoader(file, loader) == SubSeq(file, LastSeparator(loader) + 1, Len(file))

\* C39: testSupported answers supported exactly for a supported game whose
\* file list has an entry with the extender executable as base name; and
\* then installScriptExtender returns one copy instruction for every
\* non-directory entry under the loader's directory and for no other entry,
\* with destinations relative to that directory, plus exactly one conflict
\* rule.
C39_InstallCopiesLoaderDirectory ==
  \A f \in FlowIds :
    flows[f].pc = "installed" =>
      LET files == flows[f].files
          g == flows[f].game
          ins == flows[f].instructions
          copies == {ins[i] : i \in {j \in 1..Len(ins) : ins[j].type = "copy"}}
      IN
      /\ flows[f].supported <=>
           (g \in Games /\ \E i \in 1..Len(files) : PathBasename(files[i]) = ScriptExtExe(g))
      /\ flows[f].supported =>
           LET loader == LoaderOf(files, g)
               wanted == {files[i] : i \in {j \in 1..Len(files) :
                            UnderLoader(files[j], loader) /\ files[j][Len(files[j])] # "/"}}
           IN
           /\ {c.source : c \in copies} = wanted
           /\ \A c \in copies : c.destination = RelativeToLoader(c.source, loader)
           /\ Cardinality({i \in 1..Len(ins) : ins[i].type = "copy"}) = Cardinality(wanted)
           /\ Cardinality({i \in 1..Len(ins) : ins[i].type = "rule"}) = 1
=============================================================================
